---------------------------- MODULE Spec2Model ----------------------------
(* A model of oj_api_tool.py: the login/logout run of main, the cookie     *)
(* store, the paginated rank fetch and the two CSV scoring transforms.     *)
(* The remote judge is the environment: every response it gives is a       *)
(* nondeterministic choice inside the action that issues the request.      *)
EXTENDS Integers, Sequences, FiniteSets, TLC

VARIABLES
    args,      \* parsed command line: [logout, mode]
    pc,        \* position of main
    err,       \* the exception that ended the run ("none" while none)
    file,      \* the cookie file: [exists, valid, data]
    jar,       \* session.cookies, in iteration order
    header,    \* session.headers['X-CSRFToken']
    log,       \* every observable event of the run, in order
    ind,       \* the profile response indicated an authenticated user
    tc,        \* result of check_tfa_required
    code,      \* the accepted 2FA code (<<>> is None)
    bad,       \* rejected interactive inputs so far
    cids,      \* ids returned by list_contests
    cid,       \* the selected contest id
    srvTotal,  \* the 'total' the server reports for the contest (NoTotal: absent)
    total,     \* fetch_all_ranks: total
    offset,    \* fetch_all_ranks: offset of the next page request
    results,   \* fetch_all_ranks: results / the argument of results_to_csv_*
    pages,     \* the page bodies received, in request order
    jar0,      \* the jar that save_cookies was applied to (round trip)
    out        \* the CSV written to stdout: [written, header, rows]

vars == <<args, pc, err, file, jar, header, log, ind, tc, code, bad, cids, cid,
          srvTotal, total, offset, results, pages, jar0, out>>

-----------------------------------------------------------------------------
(* Bounds of the model *)

MaxBad == 1
MaxTotal == 760
MaxEntries == 2
MaxErr == 2
MaxJar == 2

(* Program constants *)

PAGE_LIMIT == 250

-----------------------------------------------------------------------------
(* Generic helpers *)

Null == "null"
NoHeader == "<unset>"
NoTotal == -1

SeqsUpTo(S, n) == UNION {[1..k -> S] : k \in 0..n}

Range(s) == {s[i] : i \in 1..Len(s)}

RECURSIVE Flatten(_)
Flatten(ss) == IF ss = <<>> THEN <<>> ELSE Head(ss) \o Flatten(Tail(ss))

-----------------------------------------------------------------------------
(* Cookies *)

site_domain == "oj.example.com"
ParentDomain == ".example.com"

Cookie(n, v, d) == [name |-> n, value |-> v, domain |-> d]

\* RequestsCookieJar.set_cookie: the jar is a dict domain -> path -> name, so a
\* cookie with a known (domain, name) is replaced in place, a new name of a
\* known domain follows that domain's cookies, and a new domain comes last.
JarSet(j, c) ==
    LET same == {i \in 1..Len(j) : j[i].domain = c.domain /\ j[i].name = c.name}
        dom  == {i \in 1..Len(j) : j[i].domain = c.domain}
    IN  IF same # {}
        THEN [i \in 1..Len(j) |-> IF i \in same THEN c ELSE j[i]]
        ELSE IF dom # {}
             THEN LET k == CHOOSE i \in dom : \A m \in dom : m <= i
                  IN  SubSeq(j, 1, k) \o <<c>> \o SubSeq(j, k + 1, Len(j))
             ELSE Append(j, c)

RECURSIVE JarUpdate(_, _)
JarUpdate(j, cs) == IF cs = <<>> THEN j ELSE JarUpdate(JarSet(j, Head(cs)), Tail(cs))

\* requests.utils.dict_from_cookiejar: cookie_dict[cookie.name] = cookie.value
\* for every cookie in iteration order. The dict is a sequence of name/value
\* pairs in first-insertion order; a later cookie of a known name overwrites.
RECURSIVE DictPut(_, _, _)
DictPut(d, n, v) ==
    IF d = <<>> THEN <<[name |-> n, value |-> v]>>
    ELSE IF Head(d).name = n THEN <<[name |-> n, value |-> v]>> \o Tail(d)
    ELSE <<Head(d)>> \o DictPut(Tail(d), n, v)

RECURSIVE dict_from_cookiejar(_)
dict_from_cookiejar(j) ==
    IF j = <<>> THEN <<>>
    ELSE LET k == Len(j)
         IN  DictPut(dict_from_cookiejar(SubSeq(j, 1, k - 1)), j[k].name, j[k].value)

\* requests.utils.cookiejar_from_dict: create_cookie(name, value) has domain ''
\* and path '/'.
RECURSIVE cookiejar_from_dict(_)
cookiejar_from_dict(d) ==
    IF d = <<>> THEN <<>>
    ELSE JarSet(cookiejar_from_dict(SubSeq(d, 1, Len(d) - 1)),
                Cookie(d[Len(d)].name, d[Len(d)].value, ""))

NoFile == [exists |-> FALSE, valid |-> FALSE, data |-> <<>>]
CorruptFile == [exists |-> TRUE, valid |-> FALSE, data |-> <<>>]
FileOf(d) == [exists |-> TRUE, valid |-> TRUE, data |-> d]

\* load_cookies: the jar after the call and the value returned.
LoadedJar_unassigned(f, j) == j
LoadedJar(f, j) == IF f.exists /\ f.valid THEN cookiejar_from_dict(f.data) ELSE j
LoadedOk(f) == f.exists /\ f.valid

\* save_cookies: the file after the call.
SavedFile(j) == FileOf(dict_from_cookiejar(j))

\* set_csrf_header
csrf_cookies(j) == SelectSeq(j, LAMBDA c : c.name = "csrftoken")

token_cookie(j) ==
    LET cs == csrf_cookies(j)
        m  == {i \in 1..Len(cs) : cs[i].domain = site_domain}
    IN  IF m # {} THEN cs[CHOOSE i \in m : \A k \in m : i <= k] ELSE cs[Len(cs)]

-----------------------------------------------------------------------------
(* Text conversions *)

DigitChars == <<"0", "1", "2", "3", "4", "5", "6", "7", "8", "9">>

IsDigit(c) == \E i \in 1..10 : DigitChars[i] = c

DigitVal(c) == (CHOOSE i \in 1..10 : DigitChars[i] = c) - 1

\* str.isdigit(): non-empty and every character a digit.
isdigit(s) == s # <<>> /\ \A i \in 1..Len(s) : IsDigit(s[i])

\* int(s) of a digit string.
RECURSIVE int(_)
int(s) == IF s = <<>> THEN 0 ELSE 10 * int(SubSeq(s, 1, Len(s) - 1)) + DigitVal(s[Len(s)])

\* str(n) of a non-negative integer.
RECURSIVE str(_)
str(n) == IF n < 10 THEN <<DigitChars[n + 1]>> ELSE str(n \div 10) \o <<DigitChars[(n % 10) + 1]>>

\* re.fullmatch(r"\d{6}", c)
fullmatch_d6(c) == Len(c) = 6 /\ \A i \in 1..6 : IsDigit(c[i])

-----------------------------------------------------------------------------
(* The environment: what the judge and the terminal can answer *)

ProfileBodies ==
    { [error |-> Null, data |-> Null],
      [error |-> Null, data |-> "profile"],
      [error |-> "error", data |-> "msg"] }

ProfileSetCookies ==
    { <<>>,
      <<Cookie("csrftoken", "t2", site_domain)>>,
      <<Cookie("csrftoken", "t3", ParentDomain)>> }

LoginBodies ==
    { [error |-> Null, data |-> "Succeeded"],
      [error |-> Null, data |-> "Other"],
      [error |-> "error", data |-> "Invalid username or password"] }

\* The judge opens a session (Set-Cookie: sessionid) when it accepts a login.
LoginSetCookies(b) ==
    IF b.error = Null /\ b.data = "Succeeded"
    THEN <<Cookie("sessionid", "s2", site_domain)>>
    ELSE <<>>

TfaBodies ==
    { [error |-> Null, result |-> TRUE],
      [error |-> Null, result |-> FALSE],
      [error |-> "error", result |-> TRUE] }

CodeInputs ==
    { <<"1", "2", "3", "4", "5", "6">>,
      <<"1", "2", "3", "4", "5">>,
      <<"1", "2", "a", "4", "5", "6">> }

ContestLists == { <<>>, <<7>>, <<1, 7>> }

ChoiceInputs == { <<"7">>, <<"1">>, <<"x">>, <<>> }

InitialFiles ==
    { NoFile,
      CorruptFile,
      FileOf(<<[name |-> "sessionid", value |-> "s1"]>>),
      FileOf(<<[name |-> "csrftoken", value |-> "t1"],
               [name |-> "sessionid", value |-> "s1"]>>) }

\* The judge answers "authenticated" only to a request carrying a session id.
HasSession(j) == \E i \in 1..Len(j) : j[i].name = "sessionid" /\ j[i].value # ""

-----------------------------------------------------------------------------
(* Events *)

Ev(e, k, o, a) == [ev |-> e, kind |-> k, ok |-> o, arg |-> a, error |-> Null, data |-> Null]

\* A request and the response it got: status, and the envelope's error and data.
Req(k, o, a) == Ev("req", k, o, a)
ReqB(k, o, b) == [ev |-> "req", kind |-> k, ok |-> o, arg |-> 0, error |-> b.error, data |-> b.data]

\* A non-2xx response carries an error envelope.
ErrorBody == [error |-> "error", data |-> "msg"]

IsPost(e) == e.ev = "req" /\ e.kind \in {"tfa_required", "login", "logout"}

-----------------------------------------------------------------------------
(* Decisions of the code *)

\* resp.raise_for_status()
raise_for_status_never(ok) == FALSE
raise_for_status(ok) == ~ok

\* main: rst = resp.json() if resp.ok else {}
rst(ok, body) == IF ok THEN body ELSE [error |-> Null, data |-> Null]

\* main: rst.get('error') is None and rst.get('data') is not None
Authenticated_error_only(r) == r.error = Null
Authenticated(r) == r.error = Null /\ r.data # Null

\* check_tfa_required: the value returned
TfaResult(b) == b.error = Null /\ b.result

\* do_login: success
LoginSuccess_error_only(b) == b.error = Null
LoginSuccess(b) == b.error = Null /\ b.data = "Succeeded"

\* clear_cookies_file: the file after os.remove (FileNotFoundError is ignored)
ClearedFile_kept(f) == f
ClearedFile(f) == NoFile

\* main: the step that follows the profile fetch
AfterProfile_no_csrf == "check"
AfterProfile == "csrf"
AfterLogoutProfile == "lcsrf"

Abort(e) == pc' = "aborted" /\ err' = e

-----------------------------------------------------------------------------
(* The logout run: main, lines 204-208 *)

logout_get_profile ==
    /\ pc = "lprofile"
    /\ \E ok \in BOOLEAN, sc \in ProfileSetCookies :
          /\ jar' = JarUpdate(jar, sc)
          /\ log' = Append(log, Req("profile", ok, 0))
    /\ pc' = AfterLogoutProfile
    /\ UNCHANGED <<args, err, file, header, ind, tc, code, bad, cids, cid,
                   srvTotal, total, offset, results, pages, jar0, out>>

logout_set_csrf_header ==
    /\ pc = "lcsrf"
    /\ IF csrf_cookies(jar) = <<>>
       THEN Abort("RuntimeError") /\ UNCHANGED <<header, log>>
       ELSE /\ header' = token_cookie(jar).value
            /\ log' = Append(log, Ev("csrf", "", TRUE, 0))
            /\ pc' = "logout"
            /\ err' = err
    /\ UNCHANGED <<args, file, jar, ind, tc, code, bad, cids, cid,
                   srvTotal, total, offset, results, pages, jar0, out>>

do_logout ==
    /\ pc = "logout"
    /\ \E ok \in BOOLEAN :
          IF raise_for_status(ok)
          THEN /\ log' = Append(log, Req("logout", ok, 0))
               /\ Abort("HTTPError")
               /\ UNCHANGED <<jar, file>>
          ELSE LET j == JarSet(jar, Cookie("sessionid", "", site_domain))
               IN  /\ jar' = j
                   /\ file' = ClearedFile(SavedFile(j))
                   /\ log' = log \o <<Req("logout", ok, 0),
                                      Ev("write", "", TRUE, 0),
                                      Ev("delete", "", TRUE, 0),
                                      Ev("print", "Logged out successfully.", TRUE, 0)>>
                   /\ pc' = "done"
                   /\ err' = err
    /\ UNCHANGED <<args, header, ind, tc, code, bad, cids, cid,
                   srvTotal, total, offset, results, pages, jar0, out>>

-----------------------------------------------------------------------------
(* The login run: main, lines 210-223 *)

load_cookies ==
    /\ pc = "load"
    /\ jar' = LoadedJar(file, jar)
    /\ log' = Append(log, Ev("load", "", LoadedOk(file), 0))
    /\ pc' = "profile"
    /\ UNCHANGED <<args, err, file, header, ind, tc, code, bad, cids, cid,
                   srvTotal, total, offset, results, pages, jar0, out>>

main_get_profile ==
    /\ pc = "profile"
    /\ \E ok \in BOOLEAN, body \in ProfileBodies, sc \in ProfileSetCookies :
          /\ body.data = "profile" => HasSession(jar)
          /\ ~ok => body = ErrorBody
          /\ jar' = JarUpdate(jar, sc)
          /\ ind' = Authenticated(rst(ok, body))
          /\ log' = Append(log, ReqB("profile", ok, body))
    /\ pc' = AfterProfile
    /\ UNCHANGED <<args, err, file, header, tc, code, bad, cids, cid,
                   srvTotal, total, offset, results, pages, jar0, out>>

main_set_csrf_header ==
    /\ pc = "csrf"
    /\ IF csrf_cookies(jar) = <<>>
       THEN Abort("RuntimeError") /\ UNCHANGED <<header, log>>
       ELSE /\ header' = token_cookie(jar).value
            /\ log' = Append(log, Ev("csrf", "", TRUE, 0))
            /\ pc' = "check"
            /\ err' = err
    /\ UNCHANGED <<args, file, jar, ind, tc, code, bad, cids, cid,
                   srvTotal, total, offset, results, pages, jar0, out>>

\* if not(rst.get('error') is None and rst.get('data') is not None)
main_check_profile ==
    /\ pc = "check"
    /\ pc' = IF ~ind THEN "prompt" ELSE "mode"
    /\ UNCHANGED <<args, err, file, jar, header, log, ind, tc, code, bad, cids, cid,
                   srvTotal, total, offset, results, pages, jar0, out>>

prompt_credentials ==
    /\ pc = "prompt"
    /\ log' = Append(log, Ev("prompt", "credentials", TRUE, 0))
    /\ pc' = "tfa"
    /\ UNCHANGED <<args, err, file, jar, header, ind, tc, code, bad, cids, cid,
                   srvTotal, total, offset, results, pages, jar0, out>>

check_tfa_required ==
    /\ pc = "tfa"
    /\ \E ok \in BOOLEAN, body \in TfaBodies :
          /\ ~ok => body.error # Null
          /\ log' = Append(log, Req("tfa_required", ok, 0))
          /\ IF raise_for_status(ok)
             THEN Abort("HTTPError") /\ tc' = tc
             ELSE /\ tc' = TfaResult(body)
                  /\ pc' = IF TfaResult(body) THEN "code" ELSE "login"
                  /\ err' = err
    /\ UNCHANGED <<args, file, jar, header, ind, code, bad, cids, cid,
                   srvTotal, total, offset, results, pages, jar0, out>>

\* while True: c = input("2FA code: "); if re.fullmatch(r"\d{6}", c): code = c; break
prompt_tfa_code ==
    /\ pc = "code"
    /\ \E c \in CodeInputs :
          /\ log' = Append(log, Ev("prompt", "2FA code", fullmatch_d6(c), 0))
          /\ IF fullmatch_d6(c)
             THEN code' = c /\ pc' = "login" /\ bad' = 0
             ELSE bad < MaxBad /\ bad' = bad + 1 /\ code' = code /\ pc' = pc
    /\ UNCHANGED <<args, err, file, jar, header, ind, tc, cids, cid,
                   srvTotal, total, offset, results, pages, jar0, out>>

do_login ==
    /\ pc = "login"
    /\ \E ok \in BOOLEAN, body \in LoginBodies :
          /\ ~ok => body.error # Null
          /\ log' = log \o <<ReqB("login", ok, body)>> \o
                    ( IF raise_for_status(ok) THEN <<>>
                      ELSE IF LoginSuccess(body)
                      THEN <<Ev("write", "", TRUE, 0), Ev("print", "Login successful.", TRUE, 0)>>
                      ELSE <<Ev("print", "Login failed", TRUE, 0)>> )
          /\ jar' = JarUpdate(jar, LoginSetCookies(body))
          /\ IF raise_for_status(ok)
             THEN Abort("HTTPError") /\ file' = file
             ELSE IF LoginSuccess(body)
             THEN file' = SavedFile(jar') /\ pc' = "mode" /\ err' = err
             ELSE file' = file /\ pc' = "done" /\ err' = err
    /\ UNCHANGED <<args, header, ind, tc, code, bad, cids, cid,
                   srvTotal, total, offset, results, pages, jar0, out>>

\* if args.mode: ... else: print("Authenticated successfully.")
main_mode ==
    /\ pc = "mode"
    /\ IF args.mode # "none"
       THEN pc' = "contests" /\ log' = log
       ELSE /\ pc' = "done"
            /\ log' = Append(log, Ev("print", "Authenticated successfully.", TRUE, 0))
    /\ UNCHANGED <<args, err, file, jar, header, ind, tc, code, bad, cids, cid,
                   srvTotal, total, offset, results, pages, jar0, out>>

-----------------------------------------------------------------------------
(* Rank entries *)

K2 == <<"2">>
K3 == <<"3">>
K10 == <<"1", "0">>

QKeys == {K2, K3, K10}

AcmRec(ac, en) == [is_ac |-> ac, error_number |-> en]

Entry(u, info, has, ts) ==
    [user |-> u, submission_info |-> info, has_total |-> has, total_score |-> ts]

\* The pages the judge can answer a contest_rank request with.
PagePool(mode) ==
    IF mode = "OI"
    THEN LET a == Entry("alice", (K2 :> 100) @@ (K10 :> 40), TRUE, 140)
             b == Entry("bob", (K10 :> 100), FALSE, 0)
         IN  { <<>>, <<a>>, <<b, a>> }
    ELSE LET a == Entry("alice", (K2 :> AcmRec(TRUE, 0)) @@ (K10 :> AcmRec(TRUE, 1)), FALSE, 0)
             b == Entry("bob", (K10 :> AcmRec(FALSE, 2)), FALSE, 0)
         IN  { <<>>, <<a>>, <<b, a>> }

-----------------------------------------------------------------------------
(* Contest selection: list_contests and main, lines 225-231 *)

list_contests ==
    /\ pc = "contests"
    /\ \E ok \in BOOLEAN, ids \in ContestLists :
          /\ ~ok => ids = <<>>
          /\ log' = Append(log, Req("contests", ok, 0))
          /\ IF raise_for_status(ok)
             THEN Abort("HTTPError") /\ cids' = cids
             ELSE /\ cids' = ids
                  /\ pc' = IF ids = <<>> THEN "nocontests" ELSE "select"
                  /\ err' = err
    /\ UNCHANGED <<args, file, jar, header, ind, tc, code, bad, cid,
                   srvTotal, total, offset, results, pages, jar0, out>>

\* if not cids: print("No contests"); return
main_no_contests ==
    /\ pc = "nocontests"
    /\ log' = Append(log, Ev("print", "No contests", TRUE, 0))
    /\ pc' = "done"
    /\ UNCHANGED <<args, err, file, jar, header, ind, tc, code, bad, cids, cid,
                   srvTotal, total, offset, results, pages, jar0, out>>

\* while True: ch = input(); if ch.isdigit() and int(ch) in cids: cid = int(ch); break
select_contest ==
    /\ pc = "select"
    /\ \E ch \in ChoiceInputs :
          LET accept == isdigit(ch) /\ int(ch) \in Range(cids)
          IN  /\ log' = Append(log, Ev("prompt", "Select contest id: ", accept, 0))
              /\ IF accept
                 THEN cid' = int(ch) /\ pc' = "fetch" /\ bad' = 0
                 ELSE bad < MaxBad /\ bad' = bad + 1 /\ cid' = cid /\ pc' = pc
    /\ UNCHANGED <<args, err, file, jar, header, ind, tc, code, cids,
                   srvTotal, total, offset, results, pages, jar0, out>>

-----------------------------------------------------------------------------
(* fetch_all_ranks *)

\* data.get('total', len(data.get('results', [])))
FirstTotal(t, page) == IF t = NoTotal THEN Len(page) ELSE t

\* range(PAGE_LIMIT, total, PAGE_LIMIT): the first offset, the loop test, the step
FirstOffset == PAGE_LIMIT
MorePages_inclusive(o, t) == o <= t
MorePages(o, t) == o < t
NextOffset(o) == o + PAGE_LIMIT

\* results.extend(page)
extend(rs, page) == rs \o page

fetch_first_page ==
    /\ pc = "fetch"
    /\ \E ok \in BOOLEAN, page \in PagePool(args.mode) :
          /\ ~ok => page = <<>>
          /\ log' = Append(log, Req("contest_rank", ok, 0))
          /\ IF raise_for_status(ok)
             THEN Abort("HTTPError") /\ UNCHANGED <<total, offset, results, pages>>
             ELSE /\ total' = FirstTotal(srvTotal, page)
                  /\ results' = page
                  /\ pages' = <<page>>
                  /\ offset' = FirstOffset
                  /\ pc' = "page"
                  /\ err' = err
    /\ UNCHANGED <<args, file, jar, header, ind, tc, code, bad, cids, cid,
                   srvTotal, jar0, out>>

fetch_next_page ==
    /\ pc = "page"
    /\ MorePages(offset, total)
    /\ \E ok \in BOOLEAN, page \in PagePool(args.mode) :
          /\ ~ok => page = <<>>
          /\ log' = Append(log, Req("contest_rank", ok, offset))
          /\ IF raise_for_status(ok)
             THEN Abort("HTTPError") /\ UNCHANGED <<offset, results, pages>>
             ELSE /\ results' = extend(results, page)
                  /\ pages' = Append(pages, page)
                  /\ offset' = NextOffset(offset)
                  /\ pc' = pc
                  /\ err' = err
    /\ UNCHANGED <<args, file, jar, header, ind, tc, code, bad, cids, cid,
                   srvTotal, total, jar0, out>>

fetch_return ==
    /\ pc = "page"
    /\ ~MorePages(offset, total)
    /\ pc' = "render"
    /\ UNCHANGED <<args, err, file, jar, header, log, ind, tc, code, bad, cids, cid,
                   srvTotal, total, offset, results, pages, jar0, out>>

-----------------------------------------------------------------------------
(* Scoring: results_to_csv_acm and results_to_csv_oi *)

\* sorted(S, key=int) of a set of integers, ascending
RECURSIVE sorted_descending(_)
sorted_descending(S) ==
    IF S = {} THEN <<>>
    ELSE LET m == CHOOSE x \in S : \A y \in S : x >= y
         IN  <<m>> \o sorted_descending(S \ {m})

RECURSIVE sorted(_)
sorted(S) ==
    IF S = {} THEN <<>>
    ELSE LET m == CHOOSE x \in S : \A y \in S : x <= y
         IN  <<m>> \o sorted(S \ {m})

\* sorted({int(q) for e in results for q in e.get('submission_info', {})}, key=int)
qids(rs) ==
    sorted({int(q) : q \in UNION {DOMAIN rs[i].submission_info : i \in 1..Len(rs)}})

\* Scores are Python floats; here they are exact fractions <<numerator,
\* denominator>>. Within the model's bounds no score lies on a rounding tie, so
\* the float and the fraction format alike.
Zero == <<0, 1>>
RatAdd(a, b) == <<a[1] * b[2] + b[1] * a[2], a[2] * b[2]>>
RatHalf(a) == <<a[1], 2 * a[2]>>

\* f"{sc:.2f}": the value in hundredths, rounded half to even
fmt2(r) ==
    LET n == 100 * r[1]
        f == n \div r[2]
        m == n % r[2]
    IN  IF 2 * m > r[2] THEN f + 1
        ELSE IF 2 * m < r[2] THEN f
        ELSE IF f % 2 = 0 THEN f ELSE f + 1

\* full = 100 / len(qids) if qids else 0
full(qs) == IF Len(qs) > 0 THEN <<100, Len(qs)>> ELSE Zero

\* sc = full if atts==1 else (full/2 if atts==2 else 0)
AttemptScore_no_half(atts, fl) == IF atts = 1 \/ atts = 2 THEN fl ELSE Zero
AttemptScore(atts, fl) == IF atts = 1 THEN fl ELSE IF atts = 2 THEN RatHalf(fl) ELSE Zero

\* the body of the loop over qids in results_to_csv_acm: sc for one question
acm_score_ignoring_is_ac(info, qid, fl) ==
    IF str(qid) \in DOMAIN info
    THEN AttemptScore(info[str(qid)].error_number + 1, fl)
    ELSE Zero

acm_score(info, qid, fl) ==
    IF str(qid) \in DOMAIN info /\ info[str(qid)].is_ac
    THEN AttemptScore(info[str(qid)].error_number + 1, fl)
    ELSE Zero

RECURSIVE RatSum(_)
RatSum(sq) == IF sq = <<>> THEN Zero ELSE RatAdd(RatSum(SubSeq(sq, 1, Len(sq) - 1)), sq[Len(sq)])

acm_row(e, qs) ==
    LET sc == [i \in 1..Len(qs) |-> acm_score(e.submission_info, qs[i], full(qs))]
    IN  [user |-> e.user,
         cells |-> [i \in 1..Len(qs) |-> fmt2(sc[i])],
         total |-> fmt2(RatSum(sc))]

\* ['username'] + [f"Q{idx+1}({qid})" ...] + [last]
csv_header(qs, last) ==
    <<[label |-> "username", idx |-> 0, qid |-> 0]>> \o
    [i \in 1..Len(qs) |-> [label |-> "Q", idx |-> i, qid |-> qs[i]]] \o
    <<[label |-> last, idx |-> 0, qid |-> 0]>>

acm_csv(rs) ==
    LET qs == qids(rs)
    IN  [written |-> TRUE,
         header |-> csv_header(qs, "total"),
         rows |-> [i \in 1..Len(rs) |-> acm_row(rs[i], qs)]]

\* sum(info.values())
RECURSIVE SumValues(_)
SumValues(info) ==
    IF DOMAIN info = {} THEN 0
    ELSE LET k == CHOOSE x \in DOMAIN info : TRUE
         IN  info[k] + SumValues([x \in DOMAIN info \ {k} |-> info[x]])

\* info.get(str(qid), 0)
oi_score(info, qid) == IF str(qid) \in DOMAIN info THEN info[str(qid)] ELSE 0

oi_row(e, qs) ==
    [user |-> e.user,
     cells |-> [i \in 1..Len(qs) |-> oi_score(e.submission_info, qs[i])],
     total |-> IF e.has_total THEN e.total_score ELSE SumValues(e.submission_info)]

oi_csv(rs) ==
    LET qs == qids(rs)
    IN  [written |-> TRUE,
         header |-> csv_header(qs, "total_score"),
         rows |-> [i \in 1..Len(rs) |-> oi_row(rs[i], qs)]]

NoCsv == [written |-> FALSE, header |-> <<>>, rows |-> <<>>]

\* main: if args.mode.upper()=="OI": results_to_csv_oi(ranks)
results_to_csv_oi ==
    /\ pc = "render"
    /\ args.mode = "OI"
    /\ out' = oi_csv(results)
    /\ log' = Append(log, Ev("csv", "OI", TRUE, 0))
    /\ pc' = "done"
    /\ UNCHANGED <<args, err, file, jar, header, ind, tc, code, bad, cids, cid,
                   srvTotal, total, offset, results, pages, jar0>>

\* main: else: results_to_csv_acm(ranks)
results_to_csv_acm ==
    /\ pc = "render"
    /\ args.mode # "OI"
    /\ out' = acm_csv(results)
    /\ log' = Append(log, Ev("csv", "ACM", TRUE, 0))
    /\ pc' = "done"
    /\ UNCHANGED <<args, err, file, jar, header, ind, tc, code, bad, cids, cid,
                   srvTotal, total, offset, results, pages, jar0>>

-----------------------------------------------------------------------------
(* Cookie store round trip: save_cookies, then load_cookies on a fresh session *)

save_cookies ==
    /\ pc = "save"
    /\ file' = SavedFile(jar)
    /\ jar0' = jar
    /\ jar' = <<>>
    /\ log' = Append(log, Ev("write", "", TRUE, 0))
    /\ pc' = "reload"
    /\ UNCHANGED <<args, err, header, ind, tc, code, bad, cids, cid,
                   srvTotal, total, offset, results, pages, out>>

reload_cookies ==
    /\ pc = "reload"
    /\ jar' = LoadedJar(file, jar)
    /\ log' = Append(log, Ev("load", "", LoadedOk(file), 0))
    /\ pc' = "loaded"
    /\ UNCHANGED <<args, err, file, header, ind, tc, code, bad, cids, cid,
                   srvTotal, total, offset, results, pages, jar0, out>>

-----------------------------------------------------------------------------
(* Specifications *)

Modes == {"none", "ACM", "OI"}

SampleTotals == {NoTotal, 251, 600}

InitRest ==
    /\ err = "none"
    /\ jar = <<>>
    /\ header = NoHeader
    /\ log = <<>>
    /\ ind = FALSE
    /\ tc = FALSE
    /\ code = <<>>
    /\ bad = 0
    /\ cids = <<>>
    /\ cid = 0
    /\ total = 0
    /\ offset = 0
    /\ results = <<>>
    /\ pages = <<>>
    /\ jar0 = <<>>
    /\ out = NoCsv

\* A run of main from the start.
Init ==
    /\ args \in [logout : BOOLEAN, mode : Modes]
    /\ pc = IF args.logout THEN "lprofile" ELSE "load"
    /\ file \in InitialFiles
    /\ srvTotal \in SampleTotals
    /\ InitRest

Next ==
    \/ logout_get_profile
    \/ logout_set_csrf_header
    \/ do_logout
    \/ load_cookies
    \/ main_get_profile
    \/ main_set_csrf_header
    \/ main_check_profile
    \/ prompt_credentials
    \/ check_tfa_required
    \/ prompt_tfa_code
    \/ do_login
    \/ main_mode
    \/ list_contests
    \/ main_no_contests
    \/ select_contest
    \/ fetch_first_page
    \/ fetch_next_page
    \/ fetch_return
    \/ results_to_csv_oi
    \/ results_to_csv_acm

Spec == Init /\ [][Next]_vars

\* fetch_all_ranks alone, for every total the first page can report.
InitFetch ==
    /\ args \in [logout : {FALSE}, mode : {"ACM", "OI"}]
    /\ pc = "fetch"
    /\ file = NoFile
    /\ srvTotal \in {NoTotal} \cup 0..MaxTotal
    /\ InitRest

NextFetch == fetch_first_page \/ fetch_next_page \/ fetch_return

SpecFetch == InitFetch /\ [][NextFetch]_vars

\* The two scoring transforms alone, for every sequence of rank entries.
\* A solved question with every number of wrong attempts, an unsolved one
\* with none and with the most.
AcmRecs ==
    [is_ac : {TRUE}, error_number : 0..MaxErr] \cup
    [is_ac : {FALSE}, error_number : {0, MaxErr}]

\* Every submission_info over the questions 2 and 10, and two over all three.
AcmInfos ==
    UNION {[D -> AcmRecs] : D \in SUBSET {K2, K10}}
    \cup { (K2 :> AcmRec(TRUE, 0)) @@ (K3 :> AcmRec(TRUE, 0)) @@ (K10 :> AcmRec(TRUE, 0)),
           (K2 :> AcmRec(TRUE, 1)) @@ (K3 :> AcmRec(FALSE, 1)) @@ (K10 :> AcmRec(TRUE, 0)) }

OIScores == {0, 40, 100}

OIInfos ==
    UNION {[D -> OIScores] : D \in SUBSET {K2, K10}}
    \cup { (K2 :> 100) @@ (K3 :> 40) @@ (K10 :> 0) }

EntryPool(mode) ==
    IF mode = "OI"
    THEN {Entry("u", i, FALSE, 0) : i \in OIInfos}
         \cup {Entry("u", i, TRUE, 140) : i \in OIInfos}
    ELSE {Entry("u", i, FALSE, 0) : i \in AcmInfos}

InitScore ==
    /\ args \in [logout : {FALSE}, mode : {"ACM", "OI"}]
    /\ pc = "render"
    /\ file = NoFile
    /\ srvTotal = NoTotal
    /\ err = "none" /\ jar = <<>> /\ header = NoHeader /\ log = <<>> /\ ind = FALSE
    /\ tc = FALSE /\ code = <<>> /\ bad = 0 /\ cids = <<>> /\ cid = 0
    /\ total = 0 /\ offset = 0 /\ pages = <<>> /\ jar0 = <<>> /\ out = NoCsv
    /\ results \in SeqsUpTo(EntryPool(args.mode), MaxEntries)

NextScore == results_to_csv_oi \/ results_to_csv_acm

SpecScore == InitScore /\ [][NextScore]_vars

\* The cookie store alone, for every jar a session can hold.
CookiePool ==
    {Cookie(n, v, d) : n \in {"csrftoken", "sessionid"}, v \in {"t1", "t2"},
                       d \in {"", site_domain, ParentDomain}}

\* The jar iterates domain by domain and holds one cookie per (domain, name).
IsJar(j) ==
    /\ \A a, b \in 1..Len(j) :
          a # b => ~(j[a].domain = j[b].domain /\ j[a].name = j[b].name)
    /\ \A a, b, c \in 1..Len(j) :
          (a < b /\ b < c /\ j[a].domain = j[c].domain) => j[b].domain = j[a].domain

Jars == {j \in SeqsUpTo(CookiePool, MaxJar) : IsJar(j)}

InitCookie ==
    /\ args = [logout |-> FALSE, mode |-> "none"]
    /\ pc = "save"
    /\ file \in InitialFiles
    /\ srvTotal = NoTotal
    /\ err = "none" /\ header = NoHeader /\ log = <<>> /\ ind = FALSE
    /\ tc = FALSE /\ code = <<>> /\ bad = 0 /\ cids = <<>> /\ cid = 0
    /\ total = 0 /\ offset = 0 /\ results = <<>> /\ pages = <<>> /\ jar0 = <<>>
    /\ out = NoCsv
    /\ jar \in Jars

NextCookie == save_cookies \/ reload_cookies

SpecCookie == InitCookie /\ [][NextCookie]_vars

-----------------------------------------------------------------------------
(* Vocabulary of the properties *)

Terminal == pc \in {"done", "aborted"}

Events == 1..Len(log)

IsReq(e, k) == e.ev = "req" /\ e.kind = k

Prompted == \E i \in Events : log[i].ev = "prompt" /\ log[i].kind = "credentials"
TfaPosted == \E i \in Events : IsReq(log[i], "tfa_required")
LoginPosted == \E i \in Events : IsReq(log[i], "login")
FileWritten == \E i \in Events : log[i].ev = "write"
CsrfSet == \E i \in Events : log[i].ev = "csrf"

\* The profile response indicates an authenticated user.
ProfileIndicatesUser ==
    \E i \in Events : /\ IsReq(log[i], "profile")
                      /\ log[i].error = Null
                      /\ log[i].data # Null

ProfileFetched == \E i \in Events : IsReq(log[i], "profile")

\* The envelope of a login response is a success.
IsSuccessBody(e) == e.error = Null /\ e.data = "Succeeded"

-----------------------------------------------------------------------------
(* C1 *)

-----------------------------------------------------------------------------
(* C2 *)

\* C2: a 2xx login response that is not a success ends the run after exactly
\* one login attempt, with no cookie-file write, no contest-list request, no
\* rank request and no CSV output; the login path writes the cookie file only
\* after a successful login response.
C2_FailedLoginEndsRun ==
    /\ \A i \in Events :
          (IsReq(log[i], "login") /\ log[i].ok /\ ~IsSuccessBody(log[i])) =>
              /\ pc = "done"
              /\ Cardinality({j \in Events : IsReq(log[j], "login")}) = 1
              /\ ~FileWritten
              /\ ~out.written
              /\ \A j \in Events :
                    /\ log[j].ev # "csv"
                    /\ ~IsReq(log[j], "contests")
                    /\ ~IsReq(log[j], "contest_rank")
              /\ \A j \in Events : j > i => log[j].ev = "print"
    /\ ~args.logout =>
          \A i \in Events :
              log[i].ev = "write" =>
                  /\ i > 1
                  /\ IsReq(log[i - 1], "login")
                  /\ log[i - 1].ok
                  /\ IsSuccessBody(log[i - 1])

\* A run whose login POST got a 2xx response that is not a success.
C2_Witness ==
    \E i \in Events : IsReq(log[i], "login") /\ log[i].ok /\ ~IsSuccessBody(log[i])

-----------------------------------------------------------------------------
(* C3 *)

RankOffsets ==
    LET idx == SelectSeq([i \in Events |-> i], LAMBDA i : IsReq(log[i], "contest_rank"))
    IN  [k \in 1..Len(idx) |-> log[idx[k]].arg]

CeilDiv(a, b) == (a + b - 1) \div b

\* C3: for every total T reported by the first page, fetch_all_ranks requests
\* exactly the offsets 0, 250, 500, ... below T, ascending and once each
\* (max(1, ceil(T/250)) requests; for T = 600 the offsets 0, 250, 500), and
\* returns the concatenation of the pages' results in request order.
C3_PagesAndConcatenation ==
    (pc = "render" /\ srvTotal # NoTotal) =>
        /\ Len(RankOffsets) = (IF CeilDiv(srvTotal, 250) > 1 THEN CeilDiv(srvTotal, 250) ELSE 1)
        /\ \A k \in 1..Len(RankOffsets) : RankOffsets[k] = 250 * (k - 1)
        /\ \A k \in 1..Len(RankOffsets) : k > 1 => RankOffsets[k] < srvTotal
        /\ srvTotal = 600 => RankOffsets = <<0, 250, 500>>
        /\ Len(pages) = Len(RankOffsets)
        /\ results = Flatten(pages)

\* A fetch of a contest with total 600 that returned entries from three pages.
C3_Witness ==
    /\ pc = "render" /\ srvTotal = 600
    /\ Len(pages) = 3
    /\ \A k \in 1..3 : pages[k] # <<>>
    /\ pages[1] # pages[2]

-----------------------------------------------------------------------------
(* C4 *)

\* C4 (as claimed): after a logout run the cookie file does not exist, so
\* load_cookies on a fresh session returns False.
C4_AsClaimed ==
    (args.logout /\ Terminal) => (~file.exists /\ ~LoadedOk(file))

\* C4 (amended): after a logout run that set the CSRF header and whose logout
\* POST returned 2xx, the cookie file does not exist and load_cookies on a
\* fresh session returns False; a logout run that aborts (no csrftoken cookie,
\* or a non-2xx logout response) neither writes nor deletes the cookie file.
C4_CompletedLogoutClearsFile ==
    /\ (args.logout /\ pc = "done") =>
          /\ ~file.exists
          /\ ~LoadedOk(file)
          /\ LoadedJar(file, <<>>) = <<>>
    /\ (args.logout /\ pc = "aborted") =>
          \A i \in Events : log[i].ev \notin {"write", "delete"}

\* A completed logout run (the file existed when it started: the run wrote it).
C4_Witness ==
    /\ args.logout /\ pc = "done"
    /\ \E i \in Events : IsReq(log[i], "logout") /\ log[i].ok
    /\ \E i \in Events : log[i].ev = "write"

-----------------------------------------------------------------------------
(* C5 *)

NothingAfter(i) == \A j \in Events : j > i => log[j].ev \notin {"req", "prompt"}

\* C5 (as claimed): the first non-2xx response to any request (profile
\* included) aborts the run at once: no later request, no prompt.
C5_AsClaimed ==
    \A i \in Events :
        (log[i].ev = "req" /\ ~log[i].ok) =>
            pc = "aborted" /\ err = "HTTPError" /\ NothingAfter(i)

\* C5 (amended): every request except the profile fetch (tfa_required, login,
\* logout, contests, contest_rank) raises on a non-2xx status and the run
\* aborts at once with the error propagated, no later request and no prompt;
\* a non-2xx profile response is not raised: the login run treats it as "not
\* authenticated", the logout run ignores it.
C5_NonProfileErrorsAbort ==
    /\ \A i \in Events :
          (log[i].ev = "req" /\ ~log[i].ok /\ log[i].kind # "profile") =>
              /\ pc = "aborted"
              /\ err = "HTTPError"
              /\ i = Len(log)
              /\ NothingAfter(i)
    /\ \A i \in Events :
          (IsReq(log[i], "profile") /\ ~log[i].ok) =>
              /\ ~ind
              /\ (pc = "aborted" /\ err = "HTTPError") => i < Len(log)

\* A run that went on after a non-2xx profile response and was then aborted by
\* a non-2xx response to a later request.
C5_Witness ==
    /\ pc = "aborted"
    /\ \E i \in Events : IsReq(log[i], "profile") /\ ~log[i].ok
    /\ \E i \in Events : IsReq(log[i], "contest_rank") /\ ~log[i].ok /\ log[i].arg > 0

-----------------------------------------------------------------------------
(* C6 *)

Triples(j) == {<<j[i].name, j[i].value, j[i].domain>> : i \in 1..Len(j)}
Pairs(j) == {<<j[i].name, j[i].value>> : i \in 1..Len(j)}

\* The value of the last cookie named n in the jar's iteration order.
LastValue(j, n) ==
    j[CHOOSE i \in 1..Len(j) :
        j[i].name = n /\ \A k \in 1..Len(j) : j[k].name = n => k <= i].value

\* C6 (as claimed): save_cookies then load_cookies into a fresh session
\* reproduces the same set of (name, value, domain) triples.
C6_AsClaimed ==
    pc = "loaded" => Triples(jar) = Triples(jar0)

\* C6 (amended): save_cookies then load_cookies into a fresh session yields one
\* cookie per cookie name of the saved jar, with the value of the last cookie
\* of that name in the jar's iteration order and with an empty domain: names
\* and (last) values are reproduced, domains are not.
C6_RoundTripKeepsNamesAndLastValues ==
    pc = "loaded" =>
        /\ Pairs(jar) = {<<jar0[i].name, LastValue(jar0, jar0[i].name)>> : i \in 1..Len(jar0)}
        /\ \A i \in 1..Len(jar) : jar[i].domain = ""
        /\ Len(jar) = Cardinality({jar0[i].name : i \in 1..Len(jar0)})

\* A round trip of a jar holding two cookies of one name on different domains.
C6_Witness ==
    /\ pc = "loaded"
    /\ \E a, b \in 1..Len(jar0) :
          /\ jar0[a].name = jar0[b].name
          /\ jar0[a].domain # jar0[b].domain
          /\ jar0[a].value # jar0[b].value

-----------------------------------------------------------------------------
(* C7, C8, C9: the CSV *)

\* The question-id strings seen in any entry of the rendered sequence.
SeenKeys == UNION {DOMAIN results[i].submission_info : i \in 1..Len(results)}

\* The question ids of a CSV's columns, read off its header.
Columns == [i \in 1..(Len(out.header) - 2) |-> out.header[i + 1].qid]

KeyOf(qid) == CHOOSE k \in QKeys : int(k) = qid

Attempted(e, qid) == KeyOf(qid) \in DOMAIN e.submission_info

SolvedAt(e, qid, n) ==
    /\ Attempted(e, qid)
    /\ e.submission_info[KeyOf(qid)].is_ac
    /\ e.submission_info[KeyOf(qid)].error_number = n

\* The score the ACM rule gives, in half-fulls: full is 2, full/2 is 1.
RuleHalves(e, qid) ==
    IF SolvedAt(e, qid, 0) THEN 2 ELSE IF SolvedAt(e, qid, 1) THEN 1 ELSE 0

RECURSIVE SumSeq(_)
SumSeq(sq) == IF sq = <<>> THEN 0 ELSE Head(sq) + SumSeq(Tail(sq))

\* h half-fulls of 100/n, formatted to two decimals (in hundredths).
Shown(h, n) == fmt2(<<100 * h, 2 * n>>)

\* C7: ACM mode, full = 100 / (number of distinct question-ids): every cell is
\* full when is_ac and error_number = 0, full/2 when is_ac and error_number =
\* 1, and 0 otherwise; each row's total is the sum of the row's scores; one
\* entry solving question 1 of 2 at the first and question 2 of 2 at the second
\* attempt gets 50.00, 25.00 and total 75.00.
C7_AcmScores ==
    (out.written /\ args.mode = "ACM") =>
        LET n == Cardinality(SeenKeys)
        IN  /\ Len(out.rows) = Len(results)
            /\ \A r \in 1..Len(results) :
                  LET h == [c \in 1..Len(Columns) |-> RuleHalves(results[r], Columns[c])]
                  IN  /\ Len(out.rows[r].cells) = Len(Columns)
                      /\ \A c \in 1..Len(Columns) : out.rows[r].cells[c] = Shown(h[c], n)
                      /\ out.rows[r].total = (IF n = 0 THEN 0 ELSE Shown(SumSeq(h), n))
            /\ ( /\ Len(results) = 1
                 /\ results[1].submission_info =
                        (K2 :> AcmRec(TRUE, 0)) @@ (K10 :> AcmRec(TRUE, 1)) )
               => /\ out.rows[1].cells = <<5000, 2500>>
                  /\ out.rows[1].total = 7500

\* An ACM table with three questions and a row that scores full, half and
\* nothing on them.
C7_Witness ==
    /\ out.written /\ args.mode = "ACM"
    /\ Len(Columns) = 3
    /\ \E r \in 1..Len(results) :
          /\ SolvedAt(results[r], 2, 1)
          /\ SolvedAt(results[r], 10, 0)
          /\ out.rows[r].cells = <<1667, 0, 3333>>
          /\ out.rows[r].total = 5000
    /\ \E r \in 1..Len(results) : \E q \in {2, 10} :
          Attempted(results[r], q) /\ results[r].submission_info[KeyOf(q)].error_number >= 2

\* C8: in both modes the column list is the set of all integer keys of any
\* entry's submission_info, without duplicates, ascending, and the header and
\* every row use that one list in that order.
C8_ColumnsSortedUnion ==
    out.written =>
        /\ out.header[1].label = "username"
        /\ out.header[Len(out.header)].label \in {"total", "total_score"}
        /\ {Columns[c] : c \in 1..Len(Columns)} = {int(k) : k \in SeenKeys}
        /\ \A a, b \in 1..Len(Columns) : a < b => Columns[a] < Columns[b]
        /\ \A c \in 1..Len(Columns) :
              out.header[c + 1].label = "Q" /\ out.header[c + 1].idx = c
        /\ Len(out.rows) = Len(results)
        /\ \A r \in 1..Len(results) :
              /\ Len(out.rows[r].cells) = Len(Columns)
              /\ \A c \in 1..Len(Columns) :
                    out.rows[r].cells[c] =
                        IF args.mode = "OI"
                        THEN (IF Attempted(results[r], Columns[c])
                              THEN results[r].submission_info[KeyOf(Columns[c])]
                              ELSE 0)
                        ELSE Shown(RuleHalves(results[r], Columns[c]), Len(Columns))

\* A table over the questions 2, 3 and 10 whose first entry has one of them
\* only, and whose rows differ.
C8_Witness ==
    /\ out.written
    /\ Len(Columns) = 3
    /\ Len(results) = 2
    /\ Cardinality(DOMAIN results[1].submission_info) = 1
    /\ Cardinality(DOMAIN results[2].submission_info) = 3
    /\ out.rows[1].cells # out.rows[2].cells

\* C9 (as claimed): in ACM mode a question of the contest that nobody attempted
\* has a column, holding 0.00 in every row.
C9_AsClaimed ==
    (out.written /\ args.mode = "ACM") =>
        \A k \in QKeys :
            (\A r \in 1..Len(results) : ~Attempted(results[r], int(k))) =>
                \E c \in 1..Len(Columns) :
                    /\ Columns[c] = int(k)
                    /\ \A r \in 1..Len(out.rows) : out.rows[r].cells[c] = 0

\* C9 (amended): in ACM mode a question that appears in some entry's
\* submission_info but that no entry solved has a column holding 0.00 in every
\* row; a question that appears in no entry's submission_info has no column.
C9_UnsolvedColumnIsZero ==
    (out.written /\ args.mode = "ACM") =>
        /\ \A c \in 1..Len(Columns) :
              (\A r \in 1..Len(results) :
                  ~(Attempted(results[r], Columns[c])
                    /\ results[r].submission_info[KeyOf(Columns[c])].is_ac))
              => \A r \in 1..Len(out.rows) : out.rows[r].cells[c] = 0
        /\ \A k \in QKeys :
              (\A r \in 1..Len(results) : ~Attempted(results[r], int(k)))
              => \A c \in 1..Len(Columns) : Columns[c] # int(k)

\* An ACM table of two rows with a column nobody solved (one entry failed it
\* without a wrong answer counted, one did not try), another column that is
\* solved, and a question that no entry attempted.
C9_Witness ==
    /\ out.written /\ args.mode = "ACM"
    /\ Len(results) = 2
    /\ Len(Columns) = 2
    /\ Attempted(results[1], 2) /\ ~results[1].submission_info[K2].is_ac
    /\ results[1].submission_info[K2].error_number = 0
    /\ ~Attempted(results[2], 2)
    /\ SolvedAt(results[2], 10, 0)
    /\ \A r \in 1..2 : ~Attempted(results[r], 3)

-----------------------------------------------------------------------------
(* C10 *)

IsHydration(e) == e.ev = "load" \/ IsReq(e, "profile")

\* C10: every state-changing POST (tfa_required, login, logout) is sent only
\* after set_csrf_header completed, and that call follows the last cookie
\* hydration (cookie-file load, profile fetch); with no csrftoken cookie in the
\* session at that point the run aborts before any POST.
C10_CsrfBeforePost ==
    /\ \A i \in Events :
          IsPost(log[i]) =>
              /\ header # NoHeader
              /\ \E j \in Events :
                    /\ j < i
                    /\ log[j].ev = "csrf"
                    /\ \E h \in Events : h < j /\ IsReq(log[h], "profile")
                    /\ \A h \in Events : IsHydration(log[h]) => h < j
    /\ (Terminal /\ ProfileFetched /\ ~CsrfSet) =>
          /\ pc = "aborted"
          /\ err = "RuntimeError"
          /\ header = NoHeader
          /\ \A i \in Events : ~IsPost(log[i])
    /\ (ProfileFetched /\ csrf_cookies(jar) = <<>>) =>
          \A i \in Events : ~IsPost(log[i])

\* A login run that loaded the cookie file, fetched the profile, set the
\* header from the site's own csrftoken cookie and then posted the login.
C10_Witness ==
    /\ \E i \in Events : log[i].ev = "load" /\ log[i].ok
    /\ Len(csrf_cookies(jar)) > 1
    /\ header = "t2"
    /\ LoginPosted

=============================================================================
